---- MODULE Spec2Model ----
(***************************************************************************)
(* Model of src/run_experiment.py: class Experiment (constructor, the      *)
(* update callback and run()), one action per statement group of run().    *)
(* Arrays are nested sequences (1-based); every cell of a loaded array     *)
(* holds a distinct number, so that slicing, concatenation and reshaping   *)
(* can be told apart by their contents.                                    *)
(***************************************************************************)
EXTENDS Integers, Sequences, FiniteSets

\* ----------------------------------------------------------------- bounds
\* largest --nfolds given on the command line
MaxFolds == 3
\* largest number of training samples a dataset holds
MaxTrain == 3
\* most update-callback invocations a trainer makes in one train() call
MaxEpochs == 1
\* time steps per sample (seq_length, scaled down)
SeqLength == 2
\* accelerometer channels, gyroscope channels, test samples
NumAcc == 2
NumGyr == 1
NumTest == 1

\* ------------------------------------------------------------ input sets
None == <<>>
Labels == {0, 1}
ArchTypes == {"cnn", "dbn", "lstm"}
RequiredKeys == {"gyroscope", "type", "name", "preprocess"}
DatasetIds == {"hapt", "unknownset"}
KnownDatasets == {"hapt"}

\* experiment-definition files: every required key present, or one missing
DefinitionFiles ==
    [keys : {RequiredKeys} \cup {RequiredKeys \ {k} : k \in RequiredKeys},
     gyroscope : BOOLEAN, type : ArchTypes]

LabelVectors == UNION {[1..n -> Labels] : n \in 1..MaxTrain}

\* ---------------------------------------------------------------- arrays
Cell(split, sensor, i, t, c) == (((split * 2 + sensor) * 10 + i) * 10 + t) * 10 + c

SensorArray(split, sensor, n, chans) ==
    [i \in 1..n |-> [t \in 1..SeqLength |-> [c \in 1..chans |-> Cell(split, sensor, i, t, c)]]]

\* dm.load_dataset(dataset, seq_length, gyro, preprocess) on a known dataset:
\* the gyroscope arrays are present for both splits or absent (None) for both
Dataset(yv, hasGyr) ==
    [x_acc_train |-> SensorArray(0, 0, Len(yv), NumAcc),
     x_gyr_train |-> IF hasGyr THEN SensorArray(0, 1, Len(yv), NumGyr) ELSE None,
     y_train     |-> yv,
     x_acc_test  |-> SensorArray(1, 0, NumTest, NumAcc),
     x_gyr_test  |-> IF hasGyr THEN SensorArray(1, 1, NumTest, NumGyr) ELSE None,
     y_test      |-> [i \in 1..NumTest |-> 0]]

\* np.concatenate((a, b), axis=2) of two (N, T, C) arrays
Concatenate(a, b) ==
    [i \in 1..Len(a) |-> [t \in 1..Len(a[i]) |-> a[i][t] \o b[i][t]]]

\* the C-order flat view of an (N, T, C) array, 0-based position k
RavelAt(a, k) ==
    LET T == Len(a[1])
        C == Len(a[1][1])
    IN  a[(k \div (T * C)) + 1][((k % (T * C)) \div C) + 1][(k % C) + 1]

\* mutant: the singleton axis is inserted after the time axis, (N, T, 1, C)
ReshapeCNNAxisAfterTime(a) ==
    [i \in 1..Len(a) |-> [t \in 1..Len(a[i]) |-> <<a[i][t]>>]]

\* np.reshape(a, newshape=(N, 1, T, C))
ReshapeCNN(a) ==
    LET T == Len(a[1])
        C == Len(a[1][1])
    IN  [i \in 1..Len(a) |-> [o \in 1..1 |-> [t \in 1..T |-> [c \in 1..C |->
            RavelAt(a, (((i - 1) + (o - 1)) * T + (t - 1)) * C + (c - 1))]]]]

\* np.reshape(a, newshape=(N, T * C))
ReshapeDBN(a) ==
    LET T == Len(a[1])
        C == Len(a[1][1])
    IN  [i \in 1..Len(a) |-> [j \in 1..(T * C) |-> RavelAt(a, (i - 1) * (T * C) + (j - 1))]]

\* a[idx] for an index array idx
Take(a, idx) == [j \in 1..Len(idx) |-> a[idx[j]]]

\* ------------------------------------------------- stratified k-fold split
\* the sorted index array of the samples satisfying P
RECURSIVE SortedSeq(_)
SortedSeq(S) ==
    IF S = {} THEN <<>>
    ELSE LET m == CHOOSE e \in S : \A o \in S : e <= o
         IN  <<m>> \o SortedSeq(S \ {m})

FirstPos(yv, l) == CHOOSE j \in 1..Len(yv) : yv[j] = l /\ \A q \in 1..(j - 1) : yv[q] # l
ClassesOf(yv) == {yv[j] : j \in 1..Len(yv)}
ClassCount(yv, l) == Cardinality({j \in 1..Len(yv) : yv[j] = l})
\* classes are encoded by order of first appearance; y_order sorts the codes
ClassStart(yv, l) == Cardinality({j \in 1..Len(yv) : FirstPos(yv, yv[j]) < FirstPos(yv, l)})
\* allocation[i][l]: members of class l among y_order[i::k]
Allocation(yv, k, i, l) ==
    Cardinality({p \in 0..(Len(yv) - 1) :
        /\ p % k = i
        /\ ClassStart(yv, l) <= p
        /\ p < ClassStart(yv, l) + ClassCount(yv, l)})

\* n_splits must not exceed the size of every class
SplitValid(yv, k) == \E l \in ClassesOf(yv) : k <= ClassCount(yv, l)

\* the fold assignments _make_test_folds can return (any shuffle of each class)
TestFolds(yv, k) ==
    {tf \in [1..Len(yv) -> 0..(k - 1)] :
        \A l \in ClassesOf(yv) : \A i \in 0..(k - 1) :
            Cardinality({j \in 1..Len(yv) : yv[j] = l /\ tf[j] = i}) = Allocation(yv, k, i, l)}

ValidationIndices(tf, i) == SortedSeq({j \in DOMAIN tf : tf[j] = i})
TrainIndices(tf, i) == SortedSeq({j \in DOMAIN tf : tf[j] # i})

\* ------------------------------------------------------------------ state
VARIABLES
    pc,          \* position in run()
    error,       \* the exception that ended run(), or "none"
    n_folds, save_log, dataset,   \* constructor arguments
    k_fold,      \* self.k_fold
    logger,      \* self.logger: [made, updates]
    definition,  \* the definition file read at line 43
    arch_type, gyro,
    ds,          \* the loaded dataset
    x, y, x_ts_np,
    test_folds, split_i,          \* the splitter's generator
    tr_i, va_i, x_tr, x_va,
    row,         \* the accumulated report
    log_file,    \* the file {dataset}_{exp_name}.csv: [exists, lines]
    epoch,       \* callbacks made by the running train() call
    calls        \* history: collaborator calls and side effects so far

vars == <<pc, error, n_folds, save_log, dataset, k_fold, logger, definition,
          arch_type, gyro, ds, x, y, x_ts_np, test_folds, split_i,
          tr_i, va_i, x_tr, x_va, row, log_file, epoch, calls>>

HeaderLine == [kind |-> "header", fold |-> 0]
RowLine(f) == [kind |-> "row", fold |-> f]
StaleLine == [kind |-> "stale", fold |-> 0]

\* load/build/fit/train/predict/write count the calls begun; failed is the
\* fold in which a model call raised (0: none); cb lists, per callback, the
\* position of the splitter when it was made; val lists the validation index
\* sets of the folds entered; gyr_read tells whether line 57/58 read the
\* gyroscope arrays; file0 is the log file as run() found it
NoCalls(f) == [load |-> 0, build |-> 0, fit |-> 0, train |-> 0, predict |-> 0, write |-> 0,
               failed |-> 0, cb |-> <<>>, val |-> <<>>, gyr_read |-> FALSE, file0 |-> f]

\* Experiment.__init__
Init ==
    /\ pc = "run"
    /\ error = "none"
    /\ n_folds \in 1..MaxFolds
    /\ save_log \in BOOLEAN
    /\ dataset \in DatasetIds
    /\ k_fold = 1
    /\ logger = [made |-> FALSE, updates |-> <<>>]
    /\ definition = None
    /\ arch_type = "" /\ gyro = FALSE
    /\ ds = None
    /\ x = None /\ y = None /\ x_ts_np = None
    /\ test_folds = None /\ split_i = 0
    /\ tr_i = None /\ va_i = None /\ x_tr = None /\ x_va = None
    /\ row = <<>>
    /\ log_file \in {[exists |-> FALSE, lines |-> <<>>], [exists |-> TRUE, lines |-> <<StaleLine>>]}
    /\ epoch = 0
    /\ calls = NoCalls(log_file)

Abort(e) == pc' = "aborted" /\ error' = e

\* mutant: "preprocess" is read with a default and is no longer required
HasRequiredKeysButPreprocess(d) == (RequiredKeys \ {"preprocess"}) \subseteq d.keys

\* lines 45-48: the four subscripts of the parsed definition
HasRequiredKeys(d) == RequiredKeys \subseteq d.keys

\* lines 42-50: read the definition file; every required key is present
LoadDefinition ==
    /\ pc = "run"
    /\ \E d \in DefinitionFiles :
        /\ HasRequiredKeys(d)
        /\ definition' = d
        /\ gyro' = d.gyroscope
        /\ arch_type' = d.type
    /\ pc' = "logger"
    /\ UNCHANGED <<error, n_folds, save_log, dataset, k_fold, logger, ds, x, y, x_ts_np,
                   test_folds, split_i, tr_i, va_i, x_tr, x_va, row, log_file, epoch, calls>>

\* lines 42-48: a subscript raises KeyError
LoadDefinitionFail ==
    /\ pc = "run"
    /\ \E d \in DefinitionFiles :
        /\ ~HasRequiredKeys(d)
        /\ definition' = d
    /\ Abort("ConfigError")
    /\ UNCHANGED <<n_folds, save_log, dataset, k_fold, logger, arch_type, gyro, ds, x, y,
                   x_ts_np, test_folds, split_i, tr_i, va_i, x_tr, x_va, row, log_file,
                   epoch, calls>>

\* lines 52-53
MakeLogger ==
    /\ pc = "logger"
    /\ logger' = [made |-> TRUE, updates |-> <<>>]
    /\ pc' = "load"
    /\ UNCHANGED <<error, n_folds, save_log, dataset, k_fold, definition, arch_type, gyro,
                   ds, x, y, x_ts_np, test_folds, split_i, tr_i, va_i, x_tr, x_va, row,
                   log_file, epoch, calls>>

\* line 55, the dataset loads
LoadData ==
    /\ pc = "load"
    /\ dataset \in KnownDatasets
    /\ \E yv \in LabelVectors, hasGyr \in BOOLEAN : ds' = Dataset(yv, hasGyr)
    /\ calls' = [calls EXCEPT !.load = @ + 1]
    /\ pc' = "concat"
    /\ UNCHANGED <<error, n_folds, save_log, dataset, k_fold, logger, definition, arch_type,
                   gyro, x, y, x_ts_np, test_folds, split_i, tr_i, va_i, x_tr, x_va, row,
                   log_file, epoch>>

\* mutant: the failure is caught and a default dataset is used instead
LoadDataFallback ==
    /\ pc = "load"
    /\ dataset \notin KnownDatasets
    /\ ds' = Dataset(<<0, 1>>, FALSE)
    /\ calls' = [calls EXCEPT !.load = @ + 1]
    /\ pc' = "concat"
    /\ UNCHANGED <<error, n_folds, save_log, dataset, k_fold, logger, definition, arch_type,
                   gyro, x, y, x_ts_np, test_folds, split_i, tr_i, va_i, x_tr, x_va, row,
                   log_file, epoch>>

\* line 55, load_dataset raises
LoadDataFail ==
    /\ pc = "load"
    /\ dataset \notin KnownDatasets
    /\ calls' = [calls EXCEPT !.load = @ + 1]
    /\ Abort("DataError")
    /\ UNCHANGED <<n_folds, save_log, dataset, k_fold, logger, definition, arch_type, gyro,
                   ds, x, y, x_ts_np, test_folds, split_i, tr_i, va_i, x_tr, x_va, row,
                   log_file, epoch>>

\* mutant: the requested flag is dropped from the conjunction
EffectiveGyroPresenceOnly(g, d) == d.x_gyr_train # None

\* line 56: gyro and ds.x_gyr_train is not None
EffectiveGyro(g, d) == g /\ d.x_gyr_train # None

\* lines 56-61
SelectChannels ==
    /\ pc = "concat"
    /\ gyro' = EffectiveGyro(gyro, ds)
    /\ x' = IF gyro' THEN Concatenate(ds.x_acc_train, ds.x_gyr_train) ELSE ds.x_acc_train
    /\ y' = ds.y_train
    /\ x_ts_np' = IF gyro' THEN Concatenate(ds.x_acc_test, ds.x_gyr_test) ELSE ds.x_acc_test
    /\ calls' = [calls EXCEPT !.gyr_read = gyro']
    /\ pc' = "reshape"
    /\ UNCHANGED <<error, n_folds, save_log, dataset, k_fold, logger, definition, arch_type,
                   ds, test_folds, split_i, tr_i, va_i, x_tr, x_va, row, log_file, epoch>>

\* lines 63-76
ReshapeTest ==
    /\ pc = "reshape"
    /\ x' = IF arch_type = "dbn" THEN ReshapeDBN(x) ELSE x
    /\ x_ts_np' = CASE arch_type = "cnn" -> ReshapeCNN(x_ts_np)
                    [] arch_type = "dbn" -> ReshapeDBN(x_ts_np)
                    [] OTHER -> x_ts_np
    /\ pc' = "splitter"
    /\ UNCHANGED <<error, n_folds, save_log, dataset, k_fold, logger, definition, arch_type,
                   gyro, ds, y, test_folds, split_i, tr_i, va_i, x_tr, x_va, row, log_file,
                   epoch, calls>>

\* lines 78-81
MakeSplitter ==
    /\ pc = "splitter"
    /\ n_folds >= 2
    /\ k_fold' = 1
    /\ row' = <<HeaderLine>>
    /\ pc' = "split"
    /\ UNCHANGED <<error, n_folds, save_log, dataset, logger, definition, arch_type, gyro,
                   ds, x, y, x_ts_np, test_folds, split_i, tr_i, va_i, x_tr, x_va, log_file,
                   epoch, calls>>

\* line 79: the splitter refuses fewer than two folds
MakeSplitterFail ==
    /\ pc = "splitter"
    /\ n_folds < 2
    /\ Abort("ValueError")
    /\ UNCHANGED <<n_folds, save_log, dataset, k_fold, logger, definition, arch_type, gyro,
                   ds, x, y, x_ts_np, test_folds, split_i, tr_i, va_i, x_tr, x_va, row,
                   log_file, epoch, calls>>

\* line 82, first step of the generator: the fold of every sample is drawn
StartSplit ==
    /\ pc = "split"
    /\ SplitValid(y, n_folds)
    /\ test_folds' \in TestFolds(y, n_folds)
    /\ split_i' = 0
    /\ pc' = "next"
    /\ UNCHANGED <<error, n_folds, save_log, dataset, k_fold, logger, definition, arch_type,
                   gyro, ds, x, y, x_ts_np, tr_i, va_i, x_tr, x_va, row, log_file, epoch,
                   calls>>

\* line 82, first step of the generator: more folds than any class has members
StartSplitFail ==
    /\ pc = "split"
    /\ ~SplitValid(y, n_folds)
    /\ Abort("ValueError")
    /\ UNCHANGED <<n_folds, save_log, dataset, k_fold, logger, definition, arch_type, gyro,
                   ds, x, y, x_ts_np, test_folds, split_i, tr_i, va_i, x_tr, x_va, row,
                   log_file, epoch, calls>>

\* mutant: the pair yielded by the splitter is unpacked in the wrong order
NextFoldSwapped ==
    /\ pc = "next"
    /\ split_i < n_folds
    /\ split_i' = split_i + 1
    /\ tr_i' = ValidationIndices(test_folds, split_i)
    /\ va_i' = TrainIndices(test_folds, split_i)
    /\ x_tr' = Take(x, tr_i')
    /\ x_va' = Take(x, va_i')
    /\ calls' = [calls EXCEPT !.val = Append(@, {va_i'[j] : j \in 1..Len(va_i')})]
    /\ pc' = IF arch_type = "dbn" THEN "dbn_build" ELSE "it_reshape"
    /\ UNCHANGED <<error, n_folds, save_log, dataset, k_fold, logger, definition, arch_type,
                   gyro, ds, x, y, x_ts_np, test_folds, row, log_file, epoch>>

\* lines 82-89: the generator yields the next fold, which is sliced
NextFold ==
    /\ pc = "next"
    /\ split_i < n_folds
    /\ split_i' = split_i + 1
    /\ tr_i' = TrainIndices(test_folds, split_i)
    /\ va_i' = ValidationIndices(test_folds, split_i)
    /\ x_tr' = Take(x, tr_i')
    /\ x_va' = Take(x, va_i')
    /\ calls' = [calls EXCEPT !.val = Append(@, {va_i'[j] : j \in 1..Len(va_i')})]
    /\ pc' = IF arch_type = "dbn" THEN "dbn_build" ELSE "it_reshape"
    /\ UNCHANGED <<error, n_folds, save_log, dataset, k_fold, logger, definition, arch_type,
                   gyro, ds, x, y, x_ts_np, test_folds, row, log_file, epoch>>

\* line 82: the generator is exhausted and run() returns
LoopDone ==
    /\ pc = "next"
    /\ split_i >= n_folds
    /\ pc' = "done"
    /\ UNCHANGED <<error, n_folds, save_log, dataset, k_fold, logger, definition, arch_type,
                   gyro, ds, x, y, x_ts_np, test_folds, split_i, tr_i, va_i, x_tr, x_va, row,
                   log_file, epoch, calls>>

\* lines 92-93: lab.build_experiment on the non-iterative path
DbnBuild ==
    /\ pc = "dbn_build"
    /\ calls' = [calls EXCEPT !.build = @ + 1]
    /\ pc' = "dbn_fit"
    /\ UNCHANGED <<error, n_folds, save_log, dataset, k_fold, logger, definition, arch_type,
                   gyro, ds, x, y, x_ts_np, test_folds, split_i, tr_i, va_i, x_tr, x_va, row,
                   log_file, epoch>>

\* lines 94-97: fit(x_tr, y_tr) returns
DbnFit ==
    /\ pc = "dbn_fit"
    /\ calls' = [calls EXCEPT !.fit = @ + 1]
    /\ pc' = "dbn_predict_va"
    /\ UNCHANGED <<error, n_folds, save_log, dataset, k_fold, logger, definition, arch_type,
                   gyro, ds, x, y, x_ts_np, test_folds, split_i, tr_i, va_i, x_tr, x_va, row,
                   log_file, epoch>>

\* lines 98-101: predict(x_va) returns
DbnPredictValidation ==
    /\ pc = "dbn_predict_va"
    /\ calls' = [calls EXCEPT !.predict = @ + 1]
    /\ pc' = "dbn_predict_ts"
    /\ UNCHANGED <<error, n_folds, save_log, dataset, k_fold, logger, definition, arch_type,
                   gyro, ds, x, y, x_ts_np, test_folds, split_i, tr_i, va_i, x_tr, x_va, row,
                   log_file, epoch>>

\* lines 103-107: predict(x_ts_np) returns and the fold's row joins the report
DbnPredictTest ==
    /\ pc = "dbn_predict_ts"
    /\ calls' = [calls EXCEPT !.predict = @ + 1]
    /\ row' = Append(row, RowLine(k_fold))
    /\ pc' = "dbn_save"
    /\ UNCHANGED <<error, n_folds, save_log, dataset, k_fold, logger, definition, arch_type,
                   gyro, ds, x, y, x_ts_np, test_folds, split_i, tr_i, va_i, x_tr, x_va,
                   log_file, epoch>>

\* mutant: the save flag is ignored
SaveAlways == TRUE

\* line 109
SaveEnabled == save_log

\* mutant: the file is opened in append mode
WriteLogAppend(f, r) == [exists |-> TRUE, lines |-> f.lines \o r]

\* lines 112-113: open(log_file, "w") and write(row)
WriteLog(f, r) == [exists |-> TRUE, lines |-> r]

\* lines 109-113
DbnSave ==
    /\ pc = "dbn_save"
    /\ IF SaveEnabled
         THEN /\ log_file' = WriteLog(log_file, row)
              /\ calls' = [calls EXCEPT !.write = @ + 1]
         ELSE UNCHANGED <<log_file, calls>>
    /\ pc' = "incr"
    /\ UNCHANGED <<error, n_folds, save_log, dataset, k_fold, logger, definition, arch_type,
                   gyro, ds, x, y, x_ts_np, test_folds, split_i, tr_i, va_i, x_tr, x_va, row,
                   epoch>>

\* lines 115-126: the per-fold reshape of the iterative path
IterReshape ==
    /\ pc = "it_reshape"
    /\ x_tr' = IF arch_type = "cnn" THEN ReshapeCNN(x_tr) ELSE x_tr
    /\ x_va' = IF arch_type = "cnn" THEN ReshapeCNN(x_va) ELSE x_va
    /\ pc' = "it_build"
    /\ UNCHANGED <<error, n_folds, save_log, dataset, k_fold, logger, definition, arch_type,
                   gyro, ds, x, y, x_ts_np, test_folds, split_i, tr_i, va_i, row, log_file,
                   epoch, calls>>

\* lines 128-129: lab.build_experiment on the iterative path
IterBuild ==
    /\ pc = "it_build"
    /\ calls' = [calls EXCEPT !.build = @ + 1]
    /\ pc' = "train"
    /\ UNCHANGED <<error, n_folds, save_log, dataset, k_fold, logger, definition, arch_type,
                   gyro, ds, x, y, x_ts_np, test_folds, split_i, tr_i, va_i, x_tr, x_va, row,
                   log_file, epoch>>

\* lines 131-134: train(...) is entered
TrainCall ==
    /\ pc = "train"
    /\ calls' = [calls EXCEPT !.train = @ + 1]
    /\ epoch' = 0
    /\ pc' = "training"
    /\ UNCHANGED <<error, n_folds, save_log, dataset, k_fold, logger, definition, arch_type,
                   gyro, ds, x, y, x_ts_np, test_folds, split_i, tr_i, va_i, x_tr, x_va, row,
                   log_file>>

\* mutant: the fold is forwarded zero-based
UpdateZeroBased(lg, kf) == [lg EXCEPT !.updates = Append(@, kf - 1)]

\* lines 38-39: Experiment.update forwards to the logger under self.k_fold
Update(lg, kf) == [lg EXCEPT !.updates = Append(@, kf)]

\* the trainer invokes update_callback (lines 38-39) at an epoch boundary
TrainEpoch ==
    /\ pc = "training"
    /\ epoch < MaxEpochs
    /\ epoch' = epoch + 1
    /\ logger' = Update(logger, k_fold)
    /\ calls' = [calls EXCEPT !.cb = Append(@, split_i)]
    /\ UNCHANGED <<pc, error, n_folds, save_log, dataset, k_fold, definition, arch_type,
                   gyro, ds, x, y, x_ts_np, test_folds, split_i, tr_i, va_i, x_tr, x_va, row,
                   log_file>>

\* lines 131-134: train(...) returns
TrainReturn ==
    /\ pc = "training"
    /\ pc' = "incr"
    /\ UNCHANGED <<error, n_folds, save_log, dataset, k_fold, logger, definition, arch_type,
                   gyro, ds, x, y, x_ts_np, test_folds, split_i, tr_i, va_i, x_tr, x_va, row,
                   log_file, epoch, calls>>

\* mutant: the failure is caught and the fold is skipped
ModelFailureSkipsFold ==
    /\ pc \in {"dbn_fit", "dbn_predict_va", "dbn_predict_ts", "training"}
    /\ calls' = [calls EXCEPT !.failed = k_fold]
    /\ pc' = "incr"
    /\ UNCHANGED <<error, n_folds, save_log, dataset, k_fold, logger, definition, arch_type,
                   gyro, ds, x, y, x_ts_np, test_folds, split_i, tr_i, va_i, x_tr, x_va, row,
                   log_file, epoch>>

\* lines 94, 98, 103, 131: fit, predict or train raises; nothing catches it
ModelFailure ==
    /\ pc \in {"dbn_fit", "dbn_predict_va", "dbn_predict_ts", "training"}
    /\ calls' = [calls EXCEPT !.failed = k_fold,
                              !.fit = IF pc = "dbn_fit" THEN @ + 1 ELSE @,
                              !.predict = IF pc \in {"dbn_predict_va", "dbn_predict_ts"}
                                            THEN @ + 1 ELSE @]
    /\ Abort("ModelError")
    /\ UNCHANGED <<n_folds, save_log, dataset, k_fold, logger, definition, arch_type, gyro,
                   ds, x, y, x_ts_np, test_folds, split_i, tr_i, va_i, x_tr, x_va, row,
                   log_file, epoch>>

\* mutant: the increment sits inside the else branch (iterative path only)
IncrementIterOnly ==
    /\ pc = "incr"
    /\ k_fold' = IF arch_type = "dbn" THEN k_fold ELSE k_fold + 1
    /\ pc' = "next"
    /\ UNCHANGED <<error, n_folds, save_log, dataset, logger, definition, arch_type, gyro,
                   ds, x, y, x_ts_np, test_folds, split_i, tr_i, va_i, x_tr, x_va, row,
                   log_file, epoch, calls>>

\* line 135
Increment ==
    /\ pc = "incr"
    /\ k_fold' = k_fold + 1
    /\ pc' = "next"
    /\ UNCHANGED <<error, n_folds, save_log, dataset, logger, definition, arch_type, gyro,
                   ds, x, y, x_ts_np, test_folds, split_i, tr_i, va_i, x_tr, x_va, row,
                   log_file, epoch, calls>>

Next ==
    \/ LoadDefinition \/ LoadDefinitionFail \/ MakeLogger
    \/ LoadData \/ LoadDataFail \/ SelectChannels \/ ReshapeTest
    \/ MakeSplitter \/ MakeSplitterFail \/ StartSplit \/ StartSplitFail
    \/ NextFold \/ LoopDone
    \/ DbnBuild \/ DbnFit \/ DbnPredictValidation \/ DbnPredictTest \/ DbnSave
    \/ IterReshape \/ IterBuild \/ TrainCall \/ TrainEpoch \/ TrainReturn
    \/ ModelFailure \/ Increment

Spec == Init /\ [][Next]_vars

\* ------------------------------------------------------------ properties
Range(s) == {s[j] : j \in 1..Len(s)}
ReportOf(i) == <<HeaderLine>> \o [j \in 1..i |-> RowLine(j)]
InDbnFold == pc \in {"dbn_build", "dbn_fit", "dbn_predict_va", "dbn_predict_ts", "dbn_save"}
InIterFold == pc \in {"it_reshape", "it_build", "train", "training"}
\* folds whose processing (up to the write of line 113) is over
FoldsCompleted == IF pc \in {"next", "done", "incr"} THEN split_i ELSE split_i - 1

\* C1: on the dbn path with saving enabled, once i >= 1 folds are completed the
\* log file holds exactly the header followed by the rows of folds 1..i in
\* order (whatever it held before), and after a completed run it holds the
\* header and n_folds rows.
C1_LogFileAfterEachFold ==
    (arch_type = "dbn" /\ save_log /\ (InDbnFold \/ pc \in {"next", "incr", "done"}))
        => /\ FoldsCompleted >= 1 =>
                log_file = [exists |-> TRUE, lines |-> ReportOf(FoldsCompleted)]
           /\ pc = "done" => Len(log_file.lines) = n_folds + 1

C1_Witness ==
    /\ arch_type = "dbn" /\ save_log /\ pc = "done" /\ n_folds = 3
    /\ calls.file0.exists
    /\ log_file.lines = <<HeaderLine, RowLine(1), RowLine(2), RowLine(3)>>

\* C2: the fold counter is 1 from construction up to the fold loop; while the
\* i-th fold is processed it equals i, so every logger update made through
\* the callback carries the index of the fold being trained; it has been
\* incremented exactly once for every fold left behind, and a completed run
\* ends with n_folds + 1.
C2_FoldCounter ==
    /\ pc \in {"run", "logger", "load", "concat", "reshape", "splitter", "split"} => k_fold = 1
    /\ (InDbnFold \/ InIterFold \/ pc = "incr") => k_fold = split_i
    /\ pc = "next" => k_fold = split_i + 1
    /\ pc = "done" => k_fold = n_folds + 1
    /\ logger.updates = calls.cb

C2_Witness ==
    /\ pc = "done" /\ n_folds = 3 /\ k_fold = 4
    /\ logger.updates = <<1, 2, 3>>

\* C3: once a definition lacking a required key has been read, run() is
\* aborted with a configuration error, load_dataset was never called, no
\* logger exists, no fold was entered and the log file is as it was found.
C3_MissingKeyAborts ==
    (pc # "run" /\ definition.keys # RequiredKeys)
        => /\ pc = "aborted" /\ error = "ConfigError"
           /\ calls.load = 0 /\ ~logger.made
           /\ calls.val = <<>> /\ split_i = 0 /\ calls.build = 0
           /\ calls.write = 0 /\ log_file = calls.file0

C3_Witness ==
    /\ pc = "aborted" /\ error = "ConfigError"
    /\ definition.keys = RequiredKeys \ {"type"}

\* C4: once load_dataset was called for an unknown dataset, run() is aborted
\* with a data error; the definition was parsed and the logger constructed,
\* but no fold was entered, no model built, fit or trained, the fold counter
\* is still 1, the report is empty and the log file is as it was found.
C4_LoadFailureAborts ==
    (dataset \notin KnownDatasets /\ calls.load > 0)
        => /\ pc = "aborted" /\ error = "DataError"
           /\ definition.keys = RequiredKeys /\ logger.made
           /\ calls.val = <<>> /\ split_i = 0
           /\ calls.build = 0 /\ calls.fit = 0 /\ calls.train = 0 /\ calls.predict = 0
           /\ k_fold = 1 /\ row = <<>> /\ logger.updates = <<>>
           /\ calls.write = 0 /\ log_file = calls.file0

C4_Witness ==
    /\ pc = "aborted" /\ error = "DataError" /\ dataset = "unknownset"
    /\ logger.made /\ calls.load = 1

\* C5: once fit, predict or train has raised in fold j the run is aborted in
\* fold j: fold j was not retried (one fit or train call per fold entered),
\* no later fold was entered, and on the dbn path with saving the log file
\* holds the header and the rows of folds 1..j-1 (it is as it was found when
\* j = 1); a run that ends otherwise has processed all n_folds folds.
C5_FailureAbortsRun ==
    /\ calls.failed # 0 =>
        /\ pc = "aborted" /\ error = "ModelError"
        /\ calls.failed = split_i /\ k_fold = split_i
        /\ Len(calls.val) = split_i
        /\ calls.fit + calls.train = split_i
        /\ (arch_type = "dbn" /\ save_log) =>
              log_file = IF split_i = 1 THEN calls.file0
                         ELSE [exists |-> TRUE, lines |-> ReportOf(split_i - 1)]
    /\ pc = "done" =>
        /\ calls.failed = 0 /\ split_i = n_folds /\ Len(calls.val) = n_folds
        /\ calls.fit + calls.train = n_folds

C5_Witness ==
    /\ calls.failed = 2 /\ pc = "aborted" /\ arch_type = "dbn" /\ save_log
    /\ log_file.lines = <<HeaderLine, RowLine(1)>>

\* C6: unless the architecture type is "dbn" and the save flag is set, the
\* runner never opens the log file for writing: the file is as it was found.
C6_WritesOnlyDbnSave ==
    ~(arch_type = "dbn" /\ save_log) => (calls.write = 0 /\ log_file = calls.file0)

C6_Witness ==
    /\ pc = "done" /\ n_folds = 3 /\ arch_type = "dbn" /\ ~save_log
    /\ calls.file0.exists /\ log_file = calls.file0

AllTrain == 1..Len(y)
PairwiseDisjoint(sq) ==
    \A a \in 1..Len(sq) : \A b \in 1..Len(sq) : a # b => sq[a] \cap sq[b] = {}
FoldCountFits == \E l \in Labels : Cardinality({j \in 1..Len(y) : y[j] = l}) >= n_folds
\* line 82 has been reached
SplitRequested ==
    \/ InDbnFold \/ InIterFold \/ pc \in {"split", "next", "incr", "done"}
    \/ (pc = "aborted" /\ error \in {"ValueError", "ModelError"})
Partitioned ==
    /\ (InDbnFold \/ InIterFold \/ pc = "incr") =>
        /\ Range(tr_i) \cap Range(va_i) = {}
        /\ Range(tr_i) \cup Range(va_i) = AllTrain
        /\ calls.val[split_i] = Range(va_i)
    /\ PairwiseDisjoint(calls.val)
    /\ pc = "done" =>
        /\ Len(calls.val) = n_folds
        /\ UNION Range(calls.val) = AllTrain

Train0 == IF gyro THEN Concatenate(ds.x_acc_train, ds.x_gyr_train) ELSE ds.x_acc_train
Test0 == IF gyro THEN Concatenate(ds.x_acc_test, ds.x_gyr_test) ELSE ds.x_acc_test
Channels == IF gyro THEN NumAcc + NumGyr ELSE NumAcc
\* row-major flattening of one (T, C) sample
FlatSample(r) ==
    [j \in 1..(Len(r) * Len(r[1])) |-> r[((j - 1) \div Len(r[1])) + 1][((j - 1) % Len(r[1])) + 1]]
Shape3(r) == Len(r) = SeqLength /\ \A t \in 1..Len(r) : Len(r[t]) = Channels
HandedToModel == pc \in {"dbn_fit", "dbn_predict_va", "dbn_predict_ts", "train", "training"}

\* C8: when features are handed to the model (fit, predict, train), the
\* fold-train, fold-validation and test samples have the same shape: for
\* "cnn" each sample is the original (T, C) sample under one leading axis of
\* length 1; for "dbn" each is the row-major flattening, of length T*C, of
\* the original sample selected by the fold's index (slicing the flattened
\* array equals flattening the slice); for any other type each is the
\* original (T, C) sample.
C8_SameShapePerArchitecture ==
    HandedToModel =>
        CASE arch_type = "cnn" ->
                /\ x_tr = [j \in 1..Len(tr_i) |-> <<Train0[tr_i[j]]>>]
                /\ x_va = [j \in 1..Len(va_i) |-> <<Train0[va_i[j]]>>]
                /\ x_ts_np = [i \in 1..NumTest |-> <<Test0[i]>>]
                /\ \A a \in {x_tr, x_va, x_ts_np} : \A i \in 1..Len(a) :
                        Len(a[i]) = 1 /\ Shape3(a[i][1])
          [] arch_type = "dbn" ->
                /\ x_tr = [j \in 1..Len(tr_i) |-> FlatSample(Train0[tr_i[j]])]
                /\ x_va = [j \in 1..Len(va_i) |-> FlatSample(Train0[va_i[j]])]
                /\ x_ts_np = [i \in 1..NumTest |-> FlatSample(Test0[i])]
                /\ \A a \in {x_tr, x_va, x_ts_np} : \A i \in 1..Len(a) :
                        Len(a[i]) = SeqLength * Channels
          [] OTHER ->
                /\ x_tr = [j \in 1..Len(tr_i) |-> Train0[tr_i[j]]]
                /\ x_va = [j \in 1..Len(va_i) |-> Train0[va_i[j]]]
                /\ x_ts_np = Test0
                /\ \A a \in {x_tr, x_va, x_ts_np} : \A i \in 1..Len(a) : Shape3(a[i])

C8_Witness ==
    /\ pc = "training" /\ arch_type = "cnn" /\ gyro /\ split_i = 2
    /\ Len(x_va) >= 1 /\ Len(x_va[1]) = 1 /\ Len(x_va[1][1]) = SeqLength
    /\ Len(x_va[1][1][1]) = NumAcc + NumGyr

\* C9: after lines 56-58 the effective gyroscope flag is true exactly when
\* the definition asks for the gyroscope and the dataset's gyroscope training
\* array is present; when true, train and test features are the
\* accelerometer and gyroscope arrays joined along the channel axis; when
\* false they are the accelerometer arrays and the gyroscope arrays were not
\* read.
C9_EffectiveGyroscope ==
    (calls.load > 0 /\ dataset \in KnownDatasets /\ pc # "concat")
        => /\ gyro = (definition.gyroscope /\ ds.x_gyr_train # None)
           /\ calls.gyr_read = gyro
           /\ pc = "reshape" =>
                IF gyro
                  THEN /\ x = Concatenate(ds.x_acc_train, ds.x_gyr_train)
                       /\ x_ts_np = Concatenate(ds.x_acc_test, ds.x_gyr_test)
                       /\ \A i \in 1..Len(x) : \A t \in 1..SeqLength :
                              Len(x[i][t]) = NumAcc + NumGyr
                       /\ \A i \in 1..Len(x_ts_np) : \A t \in 1..SeqLength :
                              Len(x_ts_np[i][t]) = NumAcc + NumGyr
                  ELSE /\ x = ds.x_acc_train
                       /\ x_ts_np = ds.x_acc_test

C9_Witness ==
    /\ pc = "reshape" /\ gyro /\ definition.gyroscope
    /\ Len(x[1][1]) = NumAcc + NumGyr /\ Len(x_ts_np[1][1]) = NumAcc + NumGyr

UpdatesTagged(f) == Cardinality({j \in 1..Len(logger.updates) : logger.updates[j] = f})

\* C10 as stated: for every architecture type, the "dbn" path included, a
\* processed fold has led to at least one logger update tagged with its index
\* (on the iterative path: provided the trainer called back at all).
C10_UpdatePerFold ==
    (pc = "incr" /\ (arch_type = "dbn" \/ epoch >= 1)) => UpdatesTagged(split_i) >= 1

\* C10 amended: the logger is updated only through the update callback: on
\* the iterative path a processed fold has led to exactly one logger update
\* per callback invocation of its train call, each tagged with that fold's
\* index, and on the "dbn" path the runner never updates the logger.
C10_UpdatesOnlyByCallback ==
    /\ arch_type = "dbn" => logger.updates = <<>>
    /\ Len(logger.updates) = Len(calls.cb)
    /\ (pc \in {"training", "incr"} /\ arch_type # "dbn") => UpdatesTagged(split_i) = epoch
    /\ \A j \in 1..Len(logger.updates) : logger.updates[j] \in 1..split_i

C10_Witness ==
    /\ pc = "done" /\ arch_type = "dbn" /\ n_folds = 3
    /\ logger.made /\ logger.updates = <<>> /\ calls.fit = 3

====
